---- MODULE Spec2Model ----
(***************************************************************************)
(* Linguist Lexicon: the Streamlit application (src/app.py), its JSON      *)
(* store (src/src/storage_json.py), the timestamp normalizer               *)
(* (src/src/utils.py) and the .docx import helpers                         *)
(* (src/src/docx_import.py).                                               *)
(*                                                                         *)
(* A Python str is modelled as a sequence of one-character strings, so     *)
(* that strip, lower, split, zfill and the tokenizer are computed and not  *)
(* assumed.  Python's None (and pandas' NaN, which the code turns into     *)
(* None) is the value NoneV, which is no sequence of characters.           *)
(***************************************************************************)
EXTENDS Integers, Sequences, FiniteSets, TLC

VARIABLES
    entries,    \* st.session_state.entries: the in-memory collection
    store,      \* data/lexicon.json: [kind, data]
    phase,      \* "boot" before the session's load_entries(), then "ready"
    msg,        \* what the last script run reported (st.success/warning/error, or an uncaught exception)
    now,        \* the UTC clock read by datetime.utcnow(), in seconds
    upload,     \* the .docx uploader and the two default-value text inputs
    arg,        \* argument of the pure function under study (function specifications only)
    ret         \* its result

vars == <<entries, store, phase, msg, now, upload, arg, ret>>

(***************************************************************************)
(* Bounds of the model.                                                    *)
(***************************************************************************)
MaxEntries == 2
MaxClock == 1
MaxTsLen == 3
MaxCols == 2

(***************************************************************************)
(* Text.                                                                   *)
(***************************************************************************)
NoneV == <<"None">>

Whitespace == {" ", "\t", "\n"}
Digits == {"0", "1", "2", "3", "4", "5", "6", "7", "8", "9"}
UpperSeq == <<"A", "B", "C", "D", "E", "F", "G", "H", "I", "J", "K", "L", "M",
              "N", "O", "P", "Q", "R", "S", "T", "U", "V", "W", "X", "Y", "Z">>
LowerSeq == <<"a", "b", "c", "d", "e", "f", "g", "h", "i", "j", "k", "l", "m",
              "n", "o", "p", "q", "r", "s", "t", "u", "v", "w", "x", "y", "z">>
Letters == {UpperSeq[i] : i \in 1..26} \cup {LowerSeq[i] : i \in 1..26}

ToLower == [c \in {UpperSeq[i] : i \in 1..26} |-> LowerSeq[CHOOSE i \in 1..26 : UpperSeq[i] = c]]

LowerChar(c) == IF c \in DOMAIN ToLower THEN ToLower[c] ELSE c

\* str.lower()
lower(s) == [i \in 1..Len(s) |-> LowerChar(s[i])]

RECURSIVE LStrip(_, _)
LStrip(s, cs) == IF s # <<>> /\ Head(s) \in cs THEN LStrip(Tail(s), cs) ELSE s

RECURSIVE RStrip(_, _)
RStrip(s, cs) ==
    IF s # <<>> /\ s[Len(s)] \in cs THEN RStrip(SubSeq(s, 1, Len(s) - 1), cs) ELSE s

\* str.strip(chars)
StripChars(s, cs) == RStrip(LStrip(s, cs), cs)

\* str.strip()
strip(s) == StripChars(s, Whitespace)

\* str.split(sep) for a one-character separator: the pieces, empty ones included
RECURSIVE split(_, _)
split(s, sep) ==
    IF \E i \in 1..Len(s) : s[i] = sep
    THEN LET i == CHOOSE i \in 1..Len(s) : s[i] = sep /\ \A j \in 1..(i - 1) : s[j] # sep
         IN  <<SubSeq(s, 1, i - 1)>> \o split(SubSeq(s, i + 1, Len(s)), sep)
    ELSE <<s>>

\* sep.join(parts)
RECURSIVE join(_, _)
join(parts, sep) ==
    IF parts = <<>> THEN <<>>
    ELSE IF Len(parts) = 1 THEN parts[1]
    ELSE parts[1] \o <<sep>> \o join(Tail(parts), sep)

\* str.isdigit()
isdigit(s) == s # <<>> /\ \A i \in 1..Len(s) : s[i] \in Digits

DigitChar == <<"0", "1", "2", "3", "4", "5", "6", "7", "8", "9">>

DigitVal(c) == CHOOSE d \in 0..9 : DigitChar[d + 1] = c

\* int(s) for a string of digits
RECURSIVE int(_)
int(s) == IF s = <<>> THEN 0 ELSE 10 * int(SubSeq(s, 1, Len(s) - 1)) + DigitVal(s[Len(s)])

\* "%d" % n for n >= 0
RECURSIVE IntToStr(_)
IntToStr(n) ==
    IF n < 10 THEN <<DigitChar[n + 1]>> ELSE IntToStr(n \div 10) \o <<DigitChar[(n % 10) + 1]>>

\* str.zfill(width)
zfill(s, width) ==
    IF Len(s) >= width THEN s
    ELSE LET pad == [i \in 1..(width - Len(s)) |-> "0"]
         IN  IF s # <<>> /\ Head(s) \in {"+", "-"}
             THEN <<Head(s)>> \o pad \o Tail(s)
             ELSE pad \o s

\* str(timedelta(seconds=s)): "[D day[s], ]H:MM:SS", the hours not padded
TimedeltaStr(s) ==
    LET days == s \div 86400
        secs == s % 86400
        hh == secs \div 3600
        mm == (secs % 3600) \div 60
        ss == secs % 60
        hms == IntToStr(hh) \o <<":">> \o zfill(IntToStr(mm), 2) \o <<":">> \o zfill(IntToStr(ss), 2)
    IN  IF days = 0 THEN hms
        ELSE IntToStr(days) \o <<" ", "d", "a", "y">>
                 \o (IF days = 1 THEN <<>> ELSE <<"s">>) \o <<",", " ">> \o hms

\* the last three elements of a list: parts[-3:]
LastThree(parts) == IF Len(parts) <= 3 THEN parts ELSE SubSeq(parts, Len(parts) - 2, Len(parts))

normalize_timestamp(ts) ==
    IF ts = <<>> THEN <<>>
    ELSE LET t == strip(ts)
         IN  IF isdigit(t) THEN TimedeltaStr(int(t))
             ELSE LET parts == split(t, ":")
                      padded == [i \in 1..Len(parts) |-> zfill(parts[i], 2)]
                      three == IF Len(padded) = 2 THEN <<<<"0", "0">>>> \o padded ELSE padded
                  IN  join(LastThree(three), ":")

(***************************************************************************)
(* src/src/docx_import.py                                                  *)
(***************************************************************************)
\* (h or "").strip().lower()
safe_header(h) == lower(strip(IF h = NoneV THEN <<>> ELSE h))

\* "" if v is None else str(v).strip()
str_(v) == IF v = NoneV THEN <<>> ELSE strip(v)

\* the key of cell i (counted from 0) of a data row: headers[i], or "col<i>"
RowKey(headers, i) ==
    IF i < Len(headers) THEN headers[i + 1] ELSE <<"c", "o", "l">> \o IntToStr(i)

\* the dict comprehension of one data row: a later cell with the same key wins
RowDict(headers, cells) ==
    LET keys == {RowKey(headers, i) : i \in 0..(Len(cells) - 1)}
        last(k) == CHOOSE i \in 0..(Len(cells) - 1) :
                       /\ RowKey(headers, i) = k
                       /\ \A j \in (i + 1)..(Len(cells) - 1) : RowKey(headers, j) # k
    IN  [k \in keys |-> str_(cells[last(k) + 1])]

\* one table: a sequence of rows, each a sequence of cell texts
TableRows(tbl) ==
    IF Len(tbl) < 2 THEN <<>>
    ELSE LET headers == [i \in 1..Len(tbl[1]) |-> safe_header(tbl[1][i])]
         IN  IF \A i \in 1..Len(headers) : headers[i] = <<>> THEN <<>>
             ELSE [r \in 1..(Len(tbl) - 1) |-> RowDict(headers, tbl[r + 1])]

RECURSIVE extract_tables_as_dicts(_)
extract_tables_as_dicts(tables) ==
    IF tables = <<>> THEN <<>>
    ELSE LET rows == TableRows(Head(tables))
         IN  (IF rows # <<>> THEN <<rows>> ELSE <<>>) \o extract_tables_as_dicts(Tail(tables))

RECURSIVE NonEmptyStripped(_)
NonEmptyStripped(ps) ==
    IF ps = <<>> THEN <<>>
    ELSE (IF strip(Head(ps)) # <<>> THEN <<strip(Head(ps))>> ELSE <<>>)
             \o NonEmptyStripped(Tail(ps))

extract_plain_text(paragraphs) == join(NonEmptyStripped(paragraphs), "\n")

TokenChars == Letters \cup {"-", "'"}

\* the end of the longest run of token characters that starts at position i
RECURSIVE RunEnd(_, _)
RunEnd(text, i) ==
    IF i + 1 <= Len(text) /\ text[i + 1] \in TokenChars THEN RunEnd(text, i + 1) ELSE i

\* re.findall(r"[A-Za-z][A-Za-z\-']{1,}", text), scanning from position i
RECURSIVE findall(_, _)
findall(text, i) ==
    IF i > Len(text) THEN <<>>
    ELSE IF text[i] \in Letters /\ RunEnd(text, i) > i
         THEN <<SubSeq(text, i, RunEnd(text, i))>> \o findall(text, RunEnd(text, i) + 1)
         ELSE findall(text, i + 1)

\* the characters of t.strip("...") in candidate_words_from_text (the dashes as far
\* as the model's alphabet has them)
TokenStrip == {"-", ".", ",", ":", ";", "!", "?", "(", ")", "[", "]", "{", "}", "\"", "'", " ", "\t"}

\* order-preserving de-duplication with a seen set
RECURSIVE Uniq(_, _)
Uniq(ws, seen) ==
    IF ws = <<>> THEN <<>>
    ELSE IF Head(ws) \in seen THEN Uniq(Tail(ws), seen)
         ELSE <<Head(ws)>> \o Uniq(Tail(ws), seen \cup {Head(ws)})

RECURSIVE NormalizedTokens(_)
NormalizedTokens(tokens) ==
    IF tokens = <<>> THEN <<>>
    ELSE LET t == lower(StripChars(Head(tokens), TokenStrip))
         IN  (IF Len(t) >= 2 /\ ~isdigit(t) THEN <<t>> ELSE <<>>)
                 \o NormalizedTokens(Tail(tokens))

candidate_words_from_text(text) == Uniq(NormalizedTokens(findall(text, 1)), {})

\* header_aliases
WordAliases == << <<"w","o","r","d">>, <<"t","e","r","m">>,
                  <<"v","o","c","a","b","u","l","a","r","y">>, <<"e","n","t","r","y">> >>
DefinitionAliases == << <<"d","e","f","i","n","i","t","i","o","n">>,
                        <<"m","e","a","n","i","n","g">>, <<"g","l","o","s","s">> >>
NotesAliases == << <<"n","o","t","e","s">>, <<"c","o","n","t","e","x","t">>,
                   <<"e","x","a","m","p","l","e">>, <<"e","x","a","m","p","l","e","s">> >>
TagsAliases == << <<"t","a","g","s">>, <<"l","a","b","e","l">>, <<"l","a","b","e","l","s">> >>
SourceAliases == << <<"s","o","u","r","c","e">>, <<"c","l","a","s","s">>,
                    <<"c","o","u","r","s","e">> >>
TimestampAliases == << <<"t","i","m","e","s","t","a","m","p">>, <<"t","i","m","e">>, <<"t">> >>

\* pick with the test of the value left out: the first key the row has
RECURSIVE pick_present(_, _)
pick_present(row, keys) ==
    IF keys = <<>> THEN <<>>
    ELSE IF Head(keys) \in DOMAIN row THEN str_(row[Head(keys)])
         ELSE pick_present(row, Tail(keys))

\* pick(keys): the first key in the row with a truthy value, stripped
RECURSIVE pick(_, _)
pick(row, keys) ==
    IF keys = <<>> THEN <<>>
    ELSE IF Head(keys) \in DOMAIN row /\ row[Head(keys)] # <<>> /\ row[Head(keys)] # NoneV
         THEN str_(row[Head(keys)])
         ELSE pick(row, Tail(keys))

\* [f(t) for t in pieces if t.strip()]
RECURSIVE KeepNonBlank(_, _)
KeepNonBlank(pieces, cs) ==
    IF pieces = <<>> THEN <<>>
    ELSE (IF strip(Head(pieces)) # <<>> THEN <<StripChars(Head(pieces), cs)>> ELSE <<>>)
             \o KeepNonBlank(Tail(pieces), cs)

QuoteStrip == {" ", "'", "\""}

\* the tags a row's tag cell adds: bracketed list or comma-separated
RowTags(tags_str) ==
    IF tags_str = <<>> THEN <<>>
    ELSE IF Head(tags_str) = "["
         THEN KeepNonBlank(split(StripChars(tags_str, {"[", "]"}), ","), QuoteStrip)
         ELSE KeepNonBlank(split(tags_str, ","), Whitespace)

\* the loop with seen holding tt instead of tt.lower()
RECURSIVE NormTags_case_sensitive(_, _)
NormTags_case_sensitive(tags, seen) ==
    IF tags = <<>> THEN <<>>
    ELSE LET tt == strip(Head(tags))
         IN  IF tt # <<>> /\ tt \notin seen
             THEN <<tt>> \o NormTags_case_sensitive(Tail(tags), seen \cup {tt})
             ELSE NormTags_case_sensitive(Tail(tags), seen)

\* the loop "normalize & unique tags"
RECURSIVE NormTags(_, _)
NormTags(tags, seen) ==
    IF tags = <<>> THEN <<>>
    ELSE LET tt == strip(Head(tags))
         IN  IF tt # <<>> /\ lower(tt) \notin seen
             THEN <<tt>> \o NormTags(Tail(tags), seen \cup {lower(tt)})
             ELSE NormTags(Tail(tags), seen)

\* datetime.utcnow().isoformat(timespec="seconds") + "Z", the instant written as
\* its count of seconds
Stamp(t) == IntToStr(t) \o <<"Z">>

\* The entry, and the caller's default_tags list as the call leaves it: the tags
\* are built on default_tags.copy(), so the caller's list is what it was.
map_row_to_entry(row, default_tags, default_source, t) ==
    LET dt == IF default_tags = NoneV THEN <<>> ELSE default_tags
        source == pick(row, SourceAliases)
        tags == dt \o RowTags(pick(row, TagsAliases))
    IN  [entry |-> [word |-> pick(row, WordAliases),
                    definition |-> pick(row, DefinitionAliases),
                    notes |-> pick(row, NotesAliases),
                    tags |-> NormTags(tags, {}),
                    source |-> IF source # <<>> THEN source ELSE default_source,
                    timestamp |-> pick(row, TimestampAliases),
                    date_added |-> Stamp(t)],
         default_tags |-> default_tags]

(***************************************************************************)
(* src/src/storage_json.py                                                 *)
(*                                                                         *)
(* The store file is absent, holds the JSON text of a list of entries,     *)
(* holds text that is not JSON (a truncated write, say), or holds bytes    *)
(* that are not UTF-8.                                                     *)
(***************************************************************************)
AbsentStore == [kind |-> "absent", data |-> <<>>]
MalformedStore == [kind |-> "malformed", data |-> <<>>]
UndecodableStore == [kind |-> "undecodable", data |-> <<>>]
JsonStore(es) == [kind |-> "json", data |-> es]

\* load_entries(): only json.JSONDecodeError is caught; open(..., encoding="utf-8")
\* raises UnicodeDecodeError on bytes that are not UTF-8
load_entries(st) ==
    CASE st.kind = "absent" -> [raised |-> FALSE, value |-> <<>>]
      [] st.kind = "json" -> [raised |-> FALSE, value |-> st.data]
      [] st.kind = "malformed" -> [raised |-> FALSE, value |-> <<>>]
      [] OTHER -> [raised |-> TRUE, value |-> <<>>]

\* save_entries(entries): open(JSON_PATH, "w") truncates the file, json.dump then
\* writes it piece by piece; a failure of the dump leaves the pieces written so far
SaveOutcomes == {"ok", "dump_failed"}

save_entries(es, outcome) ==
    IF outcome = "ok" THEN JsonStore(es) ELSE MalformedStore

(***************************************************************************)
(* src/app.py: df_to_entries                                               *)
(*                                                                         *)
(* A DataFrame is [columns, rows]; a row is a record of the seven fields,  *)
(* a field outside columns being absent.  A tags cell is tagged with its   *)
(* Python type: [kind |-> "list" | "str" | "none", val].                   *)
(***************************************************************************)
Fields == {"word", "definition", "notes", "tags", "source", "timestamp", "date_added"}

ListCell(l) == [kind |-> "list", val |-> l]
StrCell(s) == [kind |-> "str", val |-> s]
NoneCell == [kind |-> "none", val |-> <<>>]

fix_tags(v) ==
    IF v.kind = "list" THEN v.val
    ELSE IF v.kind = "none" \/ v.val = <<>> \/ v.val = <<"[", "]">> THEN <<>>
    ELSE LET s == strip(v.val)
         IN  IF s # <<>> /\ Head(s) = "[" /\ s[Len(s)] = "]"
             THEN KeepNonBlank(split(SubSeq(s, 2, Len(s) - 1), ","), QuoteStrip)
             ELSE KeepNonBlank(split(s, ","), Whitespace)

\* "" if x is None else str(x), for a missing column the default ""
CleanStr(df, row, col) ==
    IF col \notin df.columns \/ row[col] = NoneV THEN <<>> ELSE row[col]

\* [raised, value]: df[col] = [] for a missing tags column raises ValueError on a
\* frame that has rows
df_to_entries(df) ==
    IF df.rows = <<>> THEN [raised |-> FALSE, value |-> <<>>]
    ELSE IF "tags" \notin df.columns THEN [raised |-> TRUE, value |-> <<>>]
    ELSE [raised |-> FALSE,
          value |-> [i \in 1..Len(df.rows) |->
                       [word |-> CleanStr(df, df.rows[i], "word"),
                        definition |-> CleanStr(df, df.rows[i], "definition"),
                        notes |-> CleanStr(df, df.rows[i], "notes"),
                        tags |-> fix_tags(df.rows[i].tags),
                        source |-> CleanStr(df, df.rows[i], "source"),
                        timestamp |-> normalize_timestamp(CleanStr(df, df.rows[i], "timestamp")),
                        date_added |-> CleanStr(df, df.rows[i], "date_added")]]]

\* pd.DataFrame(st.session_state.entries), as the data editor shows it
DataFrame(es) ==
    [columns |-> Fields,
     rows |-> [i \in 1..Len(es) |-> [es[i] EXCEPT !.tags = ListCell(es[i].tags)]]]

(***************************************************************************)
(* src/app.py: the Lexicon page (filters, sort, data editor)               *)
(***************************************************************************)
\* the characters in code-point order, for the comparison of strings
CodeOrder ==
    <<"\t", "\n", " ", "!", "\"", "'", "(", ")", ",", "-", ".">> \o DigitChar
        \o <<":", ";", "?">> \o UpperSeq \o <<"[", "]">> \o LowerSeq \o <<"{", "}">>

Code(c) == CHOOSE i \in 1..Len(CodeOrder) : CodeOrder[i] = c

\* a <= b for Python strings
RECURSIVE StrLeq(_, _)
StrLeq(a, b) ==
    IF a = <<>> THEN TRUE
    ELSE IF b = <<>> THEN FALSE
    ELSE IF Head(a) # Head(b) THEN Code(Head(a)) < Code(Head(b))
    ELSE StrLeq(Tail(a), Tail(b))

\* Series.str.contains(q, case=False, na=False) for a q of plain characters
Contains(s, q) ==
    \E i \in 1..(Len(s) - Len(q) + 1) : SubSeq(lower(s), i, i + Len(q) - 1) = lower(q)

InList(x, l) == \E i \in 1..Len(l) : l[i] = x

\* the three filters of the Lexicon page, an empty filter being off
Filtered(rows, query, tag_filter, source_filter) ==
    LET keep(r) ==
            /\ query = <<>> \/ Contains(r.word, query) \/ Contains(r.definition, query)
                    \/ Contains(r.notes, query)
            /\ tag_filter = <<>> \/ InList(strip(tag_filter), r.tags.val)
            /\ source_filter = <<>> \/ Contains(r.source, source_filter)
    IN  SelectSeq(rows, keep)

\* df.sort_values(by=sort_by): every order of the rows that is sorted on the key
\* (the default sort is not stable)
SortedOrders(rows, sort_by) ==
    LET n == Len(rows)
        perms == {p \in [1..n -> 1..n] :
                    /\ \A i, j \in 1..n : i # j => p[i] # p[j]
                    /\ \A i \in 1..(n - 1) : StrLeq(rows[p[i]][sort_by], rows[p[i + 1]][sort_by])}
    IN  {[i \in 1..n |-> rows[p[i]]] : p \in perms}

\* the frames the Lexicon page can hand to the data editor
Views(es, query, tag_filter, source_filter, sort_by) ==
    IF es = <<>> THEN {<<>>}
    ELSE SortedOrders(Filtered(DataFrame(es).rows, query, tag_filter, source_filter), sort_by)

\* a row added in the data editor: every cell empty
BlankRow ==
    [word |-> NoneV, definition |-> NoneV, notes |-> NoneV, tags |-> NoneCell,
     source |-> NoneV, timestamp |-> NoneV, date_added |-> NoneV]

RemoveAt(seq, i) == SubSeq(seq, 1, i - 1) \o SubSeq(seq, i + 1, Len(seq))

\* what the user can leave in the editor: the view, one word cell retyped, one row
\* deleted, or one row added (date_added is a disabled column)
Edited(view, words, has_columns) ==
    {view}
        \cup {[view EXCEPT ![i].word = w] : i \in 1..Len(view), w \in words}
        \cup {RemoveAt(view, i) : i \in 1..Len(view)}
        \cup (IF has_columns THEN {Append(view, BlankRow)} ELSE {})

(***************************************************************************)
(* src/app.py: the import helpers inlined in the page handlers             *)
(***************************************************************************)
\* [t.strip() for t in s.split(",") if t.strip()]
ParseTags(s) == KeepNonBlank(split(s, ","), Whitespace)

RECURSIVE Flatten(_)
Flatten(tables) == IF tables = <<>> THEN <<>> ELSE Head(tables) \o Flatten(Tail(tables))

\* the loop over the rows of every table: each row mapped, kept when its word is
\* not empty; default_tags is the caller's list, handed to every call
RECURSIVE MapRows(_, _, _, _)
MapRows(rows, default_tags, default_source, t) ==
    IF rows = <<>> THEN [new |-> <<>>, default_tags |-> default_tags]
    ELSE LET m == map_row_to_entry(Head(rows), default_tags, default_source, t)
             rest == MapRows(Tail(rows), m.default_tags, default_source, t)
         IN  [new |-> (IF m.entry.word # <<>> THEN <<m.entry>> ELSE <<>>) \o rest.new,
              default_tags |-> rest.default_tags]

\* {(e["word"] or "").lower() for e in st.session_state.entries}
ExistingWords(es) ==
    {lower(IF es[i].word = NoneV THEN <<>> ELSE es[i].word) : i \in 1..Len(es)}

\* the filter with existing growing as entries are kept: siblings de-duplicated too
RECURSIVE FilterNew_siblings(_, _)
FilterNew_siblings(new_entries, es) ==
    IF new_entries = <<>> THEN <<>>
    ELSE IF lower(Head(new_entries).word) \in ExistingWords(es)
         THEN FilterNew_siblings(Tail(new_entries), es)
         ELSE <<Head(new_entries)>>
                  \o FilterNew_siblings(Tail(new_entries), Append(es, Head(new_entries)))

\* [e for e in new_entries if e["word"].lower() not in existing]
FilterNew(new_entries, es) ==
    LET existing == ExistingWords(es)
        fresh(e) == lower(e.word) \notin existing
    IN  SelectSeq(new_entries, fresh)

\* [w for w in words if w.lower() not in existing]
FreshWords(words, es) ==
    LET existing == ExistingWords(es)
        fresh(w) == lower(w) \notin existing
    IN  SelectSeq(words, fresh)

\* what the multiselect can return: the options picked, in the options' order
RECURSIVE Selections(_)
Selections(options) ==
    IF options = <<>> THEN {<<>>}
    ELSE LET rest == Selections(Tail(options))
         IN  rest \cup {<<Head(options)>> \o r : r \in rest}

\* the batch of Import Selected Words
Batch(selected, notes_default, default_tags, default_source, t) ==
    [i \in 1..Len(selected) |->
        [word |-> selected[i], definition |-> <<>>, notes |-> notes_default,
         tags |-> default_tags, source |-> default_source, timestamp |-> <<>>,
         date_added |-> Stamp(t)]]

(***************************************************************************)
(* The inputs the model draws from.                                        *)
(***************************************************************************)
Entry(word, tags, timestamp, date_added) ==
    [word |-> word, definition |-> <<>>, notes |-> <<>>, tags |-> tags, source |-> <<>>,
     timestamp |-> timestamp, date_added |-> date_added]

\* what the user types in the Add Word form
AddForms ==
    { [word |-> <<" ", "A", "b">>, definition |-> <<"d", " ">>, notes |-> <<>>,
       tags |-> <<"x", ",", " ", "X">>, source |-> <<>>, timestamp |-> <<"9", "0">>],
      [word |-> <<" ">>, definition |-> <<>>, notes |-> <<>>,
       tags |-> <<>>, source |-> <<>>, timestamp |-> <<>>] }

\* the JSON files offered to Import JSON: unparseable, or a list of records
JsonFiles ==
    { [ok |-> FALSE, records |-> <<>>],
      [ok |-> TRUE, records |-> <<Entry(<<>>, <<<<"x">>>>, <<>>, <<>>)>>] }

CsvRow(word, tags, timestamp, date_added) ==
    [word |-> word, definition |-> NoneV, notes |-> NoneV, tags |-> tags, source |-> NoneV,
     timestamp |-> timestamp, date_added |-> date_added]

\* the CSV files offered to Import CSV: unparseable, or a frame
CsvFiles ==
    { [ok |-> FALSE, columns |-> {}, rows |-> <<>>],
      [ok |-> TRUE, columns |-> Fields \ {"tags"},
       rows |-> <<CsvRow(<<"c", "d">>, NoneCell, NoneV, NoneV)>>],
      [ok |-> TRUE, columns |-> Fields \ {"date_added"},
       rows |-> <<CsvRow(<<"a", "b", " ">>, StrCell(<<"[", "'", "x", "'", ",", "'", "'", "]">>),
                         <<"5", ":", "0", "9">>, NoneV)>>] }

\* the .docx files offered to the uploader, with the two default-value inputs
NoUpload ==
    [present |-> FALSE, tables |-> <<>>, paragraphs |-> <<>>,
     default_source |-> <<>>, default_tags_str |-> <<>>]

Uploads ==
    { [present |-> TRUE,
       tables |-> << << << <<"T", "e", "r", "m">>, <<"T", "a", "g", "s">>, <<"T">> >>,
                        << <<"A", "b">>, <<"x", ",", " ", "X">>, <<"5", ":", "0", "9">> >>,
                        << <<"c", "d">>, <<>>, <<>> >>,
                        << <<"c", "d", " ">>, <<"[", "y", "]">>, <<>> >>,
                        << <<" ">>, <<>>, <<>> >> >>,
                     << << <<"W", "o", "r", "d">> >> >> >>,
       paragraphs |-> << <<"A", "b", " ", "e", "f", ".">>, <<" ">> >>,
       default_source |-> <<"S">>, default_tags_str |-> <<"x", ",", "X">>] }

\* the filters and the sort key chosen on the Lexicon page, and the words typed
\* into the editor
LexiconSettings ==
    { [query |-> <<>>, tag_filter |-> <<>>, source_filter |-> <<>>, sort_by |-> "word"],
      [query |-> <<"b">>, tag_filter |-> <<>>, source_filter |-> <<>>, sort_by |-> "date_added"],
      [query |-> <<>>, tag_filter |-> <<"x", " ">>, source_filter |-> <<"s">>, sort_by |-> "word"] }
EditWords == {<<>>}
NotesDefaults == {<<>>}

\* the store files a session can start from
InitialStores ==
    {AbsentStore, MalformedStore, UndecodableStore,
     JsonStore(<<Entry(<<"a", "b">>, <<>>, <<>>, <<"0", "Z">>)>>)}

NoMsg == [op |-> "none", result |-> "none"]

(***************************************************************************)
(* src/app.py: the session and the page handlers                           *)
(***************************************************************************)
Init ==
    /\ entries = <<>>
    /\ store \in InitialStores
    /\ phase = "boot"
    /\ msg = NoMsg
    /\ now = 0
    /\ upload = NoUpload
    /\ arg = <<>>
    /\ ret = <<>>

\* if "entries" not in st.session_state: st.session_state.entries = load_entries()
SessionLoad ==
    /\ phase = "boot"
    /\ LET r == load_entries(store)
       IN  IF r.raised
           THEN /\ msg' = [op |-> "load", result |-> "exception"]
                /\ UNCHANGED <<entries, phase>>
           ELSE /\ entries' = r.value
                /\ phase' = "ready"
                /\ msg' = [op |-> "load", result |-> "success"]
    /\ UNCHANGED <<store, now, upload, arg, ret>>

\* a new browser session: the session state is gone, the store file stays
NewSession ==
    /\ phase = "ready"
    /\ phase' = "boot"
    /\ entries' = <<>>
    /\ upload' = NoUpload
    /\ msg' = NoMsg
    /\ UNCHANGED <<store, now, arg, ret>>

Tick ==
    /\ now < MaxClock
    /\ now' = now + 1
    /\ UNCHANGED <<entries, store, phase, msg, upload, arg, ret>>

\* the report of a handler that ends with save_entries outside any try
Uncaught(op, outcome) ==
    [op |-> op, result |-> IF outcome = "ok" THEN "success" ELSE "exception"]

\* the report of a handler that saves inside try/except Exception
Caught(op, outcome) ==
    [op |-> op, result |-> IF outcome = "ok" THEN "success" ELSE "error"]

\* the Add Word form
AddWord(form, outcome) ==
    /\ phase = "ready"
    /\ IF strip(form.word) = <<>>
       THEN /\ msg' = [op |-> "add", result |-> "warning"]
            /\ UNCHANGED <<entries, store>>
       ELSE /\ Len(entries) < MaxEntries
            /\ entries' = Append(entries,
                   [word |-> strip(form.word),
                    definition |-> strip(form.definition),
                    notes |-> strip(form.notes),
                    tags |-> ParseTags(form.tags),
                    source |-> strip(form.source),
                    timestamp |-> normalize_timestamp(form.timestamp),
                    date_added |-> Stamp(now)])
            /\ store' = save_entries(entries', outcome)
            /\ msg' = Uncaught("add", outcome)
    /\ UNCHANGED <<phase, now, upload, arg, ret>>

\* the Save Changes button under the data editor
SaveChanges(edited, outcome) ==
    /\ phase = "ready"
    /\ entries' = df_to_entries([columns |-> Fields, rows |-> edited]).value
    /\ Len(entries) <= MaxEntries
    /\ Len(entries') > Len(entries) => Len(entries) < MaxEntries
    /\ store' = save_entries(entries', outcome)
    /\ msg' = Uncaught("save_changes", outcome)
    /\ UNCHANGED <<phase, now, upload, arg, ret>>

\* the Import JSON button
ImportJSON(file, outcome) ==
    /\ phase = "ready"
    /\ IF ~file.ok
       THEN /\ msg' = [op |-> "import_json", result |-> "error"]
            /\ UNCHANGED <<entries, store>>
       ELSE /\ Len(entries) < MaxEntries
            /\ entries' = entries \o file.records
            /\ store' = save_entries(entries', outcome)
            /\ msg' = Caught("import_json", outcome)
    /\ UNCHANGED <<phase, now, upload, arg, ret>>

\* the Import CSV button
ImportCSV(file, outcome) ==
    /\ phase = "ready"
    /\ LET r == df_to_entries(file)
       IN  IF ~file.ok \/ r.raised
           THEN /\ msg' = [op |-> "import_csv", result |-> "error"]
                /\ UNCHANGED <<entries, store>>
           ELSE /\ Len(entries) < MaxEntries
                /\ entries' = entries \o r.value
                /\ store' = save_entries(entries', outcome)
                /\ msg' = Caught("import_csv", outcome)
    /\ UNCHANGED <<phase, now, upload, arg, ret>>

\* the .docx uploader and the default source / default tags inputs
UploadDocx(u) ==
    /\ phase = "ready"
    /\ upload' = u
    /\ upload' # upload
    /\ UNCHANGED <<entries, store, phase, msg, now, arg, ret>>

\* new_entries of Import from Tables, before the duplicate filter
MappedRows(u, t) ==
    MapRows(Flatten(extract_tables_as_dicts(u.tables)), ParseTags(u.default_tags_str),
            u.default_source, t).new

\* the Import from Tables button (shown when the document has tables)
ImportFromTables(outcome) ==
    /\ phase = "ready"
    /\ upload.present
    /\ extract_tables_as_dicts(upload.tables) # <<>>
    /\ LET new_entries == FilterNew(MappedRows(upload, now), entries)
       IN  /\ Len(entries) < MaxEntries
           /\ entries' = entries \o new_entries
           /\ store' = save_entries(entries', outcome)
           /\ msg' = Uncaught("import_tables", outcome)
    /\ UNCHANGED <<phase, now, upload, arg, ret>>

\* the options of the "Select words to import" multiselect
Fresh(u, es) == FreshWords(candidate_words_from_text(extract_plain_text(u.paragraphs)), es)

\* the Import Selected Words button (free text mode)
ImportSelectedWords(selected, notes_default, outcome) ==
    /\ phase = "ready"
    /\ upload.present
    /\ LET batch == Batch(selected, notes_default, ParseTags(upload.default_tags_str),
                          upload.default_source, now)
       IN  /\ Len(entries) < MaxEntries
           /\ entries' = entries \o batch
           /\ store' = save_entries(entries', outcome)
           /\ msg' = Uncaught("import_words", outcome)
    /\ UNCHANGED <<phase, now, upload, arg, ret>>

Next ==
    \/ SessionLoad
    \/ NewSession
    \/ Tick
    \/ \E form \in AddForms, outcome \in SaveOutcomes : AddWord(form, outcome)
    \/ \E page \in LexiconSettings, outcome \in SaveOutcomes :
          \E view \in Views(entries, page.query, page.tag_filter, page.source_filter,
                             page.sort_by) :
              \E edited \in Edited(view, EditWords, entries # <<>>) :
                  SaveChanges(edited, outcome)
    \/ \E file \in JsonFiles, outcome \in SaveOutcomes : ImportJSON(file, outcome)
    \/ \E file \in CsvFiles, outcome \in SaveOutcomes : ImportCSV(file, outcome)
    \/ \E u \in Uploads : UploadDocx(u)
    \/ \E outcome \in SaveOutcomes : ImportFromTables(outcome)
    \/ \E selected \in Selections(Fresh(upload, entries)), notes_default \in NotesDefaults,
          outcome \in SaveOutcomes :
          ImportSelectedWords(selected, notes_default, outcome)

Spec == Init /\ [][Next]_vars

(***************************************************************************)
(* The session without the data editor: the handlers that only append to   *)
(* the collection.  Save Changes, which reorders and rewrites it, is the   *)
(* one handler left out.                                                   *)
(***************************************************************************)
NextAppend ==
    \/ SessionLoad
    \/ NewSession
    \/ Tick
    \/ \E form \in AddForms, outcome \in SaveOutcomes : AddWord(form, outcome)
    \/ \E file \in JsonFiles, outcome \in SaveOutcomes : ImportJSON(file, outcome)
    \/ \E file \in CsvFiles, outcome \in SaveOutcomes : ImportCSV(file, outcome)
    \/ \E u \in Uploads : UploadDocx(u)
    \/ \E outcome \in SaveOutcomes : ImportFromTables(outcome)
    \/ \E selected \in Selections(Fresh(upload, entries)), notes_default \in NotesDefaults,
          outcome \in SaveOutcomes :
          ImportSelectedWords(selected, notes_default, outcome)

SpecAppend == Init /\ [][NextAppend]_vars

(***************************************************************************)
(* normalize_timestamp as a function: every text of up to MaxTsLen         *)
(* characters of TsAlphabet is handed to it once.                          *)
(***************************************************************************)
TsAlphabet == {"0", "5", "9", ":", " ", "a"}

TsInputs == UNION {[1..k -> TsAlphabet] : k \in 0..MaxTsLen}

AppIdle ==
    /\ entries = <<>>
    /\ store = AbsentStore
    /\ phase = "boot"
    /\ msg = NoMsg
    /\ now = 0
    /\ upload = NoUpload

InitNormalize ==
    /\ AppIdle
    /\ arg \in TsInputs
    /\ ret = <<>>

Normalize ==
    /\ ret = <<>>
    /\ ret' = <<normalize_timestamp(arg)>>
    /\ UNCHANGED <<entries, store, phase, msg, now, upload, arg>>

NextNormalize == Normalize

SpecNormalize == InitNormalize /\ [][NextNormalize]_vars

(***************************************************************************)
(* map_row_to_entry as a function: a table of one header row and one data  *)
(* row of MaxCols cells goes through extract_tables_as_dicts, and the row  *)
(* it yields is mapped with the caller's default tags and default source.  *)
(***************************************************************************)
HeaderTexts ==
    { <<"W", "o", "r", "d">>, <<"t", "e", "r", "m", " ">>,
      <<"m", "e", "a", "n", "i", "n", "g">>, <<"g", "l", "o", "s", "s">>,
      <<"n", "o", "t", "e", "s">>, <<"e", "x", "a", "m", "p", "l", "e", "s">>,
      <<"t", "a", "g", "s">>, <<"L", "a", "b", "e", "l", "s">>,
      <<"s", "o", "u", "r", "c", "e">>, <<"c", "o", "u", "r", "s", "e">>,
      <<"t", "i", "m", "e">>, <<"t">>, <<>> }

CellTexts == { <<>>, <<"v", " ">>, <<"[", "X", ",", "'", "v", "'", ",", ",", " ", "V", "]">> }

Defaults ==
    { [default_tags_str |-> <<>>, default_source |-> <<>>],
      [default_tags_str |-> <<"x", ",", " ", "X", ",", "y">>, default_source |-> <<"S">>] }

MapInputs ==
    [headers : [1..MaxCols -> HeaderTexts], cells : [1..MaxCols -> CellTexts],
     defaults : Defaults]

InitMapRow ==
    /\ AppIdle
    /\ arg \in MapInputs
    /\ ret = <<>>

\* the rows of the table, and for the row it yields the mapper's result
MapRow ==
    /\ ret = <<>>
    /\ LET rows == Flatten(extract_tables_as_dicts(<< <<arg.headers, arg.cells>> >>))
           default_tags == ParseTags(arg.defaults.default_tags_str)
       IN  ret' = IF rows = <<>>
                  THEN <<[mapped |-> FALSE]>>
                  ELSE <<[mapped |-> TRUE, row |-> rows[1], default_tags |-> default_tags,
                          result |-> map_row_to_entry(rows[1], default_tags,
                                                      arg.defaults.default_source, now)]>>
    /\ UNCHANGED <<entries, store, phase, msg, now, upload, arg>>

NextMapRow == MapRow

SpecMapRow == InitMapRow /\ [][NextMapRow]_vars

(***************************************************************************)
(* The claims.                                                             *)
(***************************************************************************)
JsonStep == \E file \in JsonFiles, outcome \in SaveOutcomes : ImportJSON(file, outcome)
CsvStep == \E file \in CsvFiles, outcome \in SaveOutcomes : ImportCSV(file, outcome)
TablesStep == \E outcome \in SaveOutcomes : ImportFromTables(outcome)
WordsStep ==
    \E selected \in Selections(Fresh(upload, entries)), notes_default \in NotesDefaults,
       outcome \in SaveOutcomes : ImportSelectedWords(selected, notes_default, outcome)

\* the de-duplication key of the specification: the word lower-cased and trimmed
DedupKey(w) == lower(strip(w))

\* C1: a bulk import of table rows or of harvested words appends no entry whose
\* word, lower-cased and trimmed, equals the lower-cased, trimmed word of an entry
\* that was in the collection before the import.
C1_ImportAddsNoExistingWord ==
    [][(TablesStep \/ WordsStep) =>
          \A i \in (Len(entries) + 1)..Len(entries') : \A j \in 1..Len(entries) :
              DedupKey(entries'[i].word) # DedupKey(entries[j].word)]_vars

\* C2: after any sequence of operations neither the in-memory collection nor the
\* persisted store holds an entry whose word is empty.
C2_NoEmptyWord ==
    /\ \A i \in 1..Len(entries) : entries[i].word # <<>>
    /\ \A i \in 1..Len(store.data) : store.data[i].word # <<>>

\* C3: when an import (JSON, CSV, tables, free text) fails at any step, the failure
\* of the save step included, the in-memory collection and the persisted store are
\* what they were before the import started.
C3_FailedImportChangesNothing ==
    [][(JsonStep \/ CsvStep \/ TablesStep \/ WordsStep)
           /\ msg'.result \in {"error", "exception"}
       => entries' = entries /\ store' = store]_vars

\* C4: every step of a loaded session that changes the collection or the store
\* leaves the store holding exactly the whole in-memory collection, in its order;
\* no state between operations has a partial or stale store.
C4_StoreIsWholeCollection ==
    [][phase = "ready" /\ phase' = "ready" /\ (entries' # entries \/ store' # store)
       => store' = JsonStore(entries')]_vars

\* C5: after any sequence of operations every entry's tags hold no empty string and
\* no two tags that are equal when compared case-insensitively.
C5_TagsCleanAndUnique ==
    \A i \in 1..Len(entries) :
        LET tags == entries[i].tags
        IN  /\ \A k \in 1..Len(tags) : tags[k] # <<>>
            /\ \A k, l \in 1..Len(tags) : k # l => lower(tags[k]) # lower(tags[l])

\* an incoming entry passes the filter when no pre-existing entry has its word,
\* compared lower-cased
C6_Passes(e, es) == \A j \in 1..Len(es) : lower(es[j].word) # lower(e.word)

\* C6: a bulk table import leaves the existing collection in place and in order and
\* appends exactly the incoming entries that pass the filter against the
\* pre-existing words, in their order; incoming entries are never compared with
\* each other, so two of them with the same new word are both appended.
C6_TableImportAppendsFiltered ==
    [][TablesStep =>
          LET passes(e) == C6_Passes(e, entries)
          IN  entries' = entries \o SelectSeq(MappedRows(upload, now), passes)]_vars

\* C6 happens: a table import onto the manually added "Ab" dropped the row "Ab" and
\* appended both rows "cd"
C6_Witness ==
    /\ msg.op = "import_tables"
    /\ Len(entries) = 3
    /\ entries[1].word = <<"A", "b">> /\ entries[1].definition = <<"d">>
    /\ entries[2].word = <<"c", "d">> /\ entries[3].word = <<"c", "d">>
    /\ entries[2].source = <<"S">> /\ entries[3].source = <<"S">>

\* C7: load_entries() returns the empty list and raises nothing whenever the store
\* file is absent or its content is not parseable.
C7_LoadNeverRaises ==
    msg.op = "load" /\ store.kind \in {"absent", "malformed", "undecodable"}
        => msg.result = "success" /\ phase = "ready" /\ entries = <<>>

\* zero, two or three colon-separated fields, each two digits wide
C8_Canonical(t) ==
    \/ t = <<>>
    \/ LET f == split(t, ":")
       IN  Len(f) \in {2, 3} /\ \A i \in 1..Len(f) : Len(f[i]) = 2 /\ isdigit(f[i])

\* C8: for every input the timestamp normalizer's output is empty or is two or
\* three colon-separated fields, each exactly two digits wide.
C8_OutputCanonical == ret # <<>> => C8_Canonical(ret[1])

\* the value of the first alias, in the list's order, that the row has with a
\* non-empty value; otherwise dflt
C9_First(row, aliases, dflt) ==
    LET ok(i) == aliases[i] \in DOMAIN row /\ row[aliases[i]] # <<>>
    IN  IF \E i \in 1..Len(aliases) : ok(i)
        THEN row[aliases[CHOOSE i \in 1..Len(aliases) :
                             ok(i) /\ \A j \in 1..(i - 1) : ~ok(j)]]
        ELSE dflt

\* C9: for every row and every target field, map_row_to_entry takes the value of
\* the first alias, in the field's priority order, that the row has with a
\* non-empty value, and the empty string when there is none, except that source
\* then is the caller's default source (the tags being built from the value taken
\* for the tags field).
C9_FirstAliasWins ==
    ret # <<>> /\ ret[1].mapped =>
        LET row == ret[1].row
            e == ret[1].result.entry
        IN  /\ e.word = C9_First(row, WordAliases, <<>>)
            /\ e.definition = C9_First(row, DefinitionAliases, <<>>)
            /\ e.notes = C9_First(row, NotesAliases, <<>>)
            /\ e.tags = NormTags(ret[1].default_tags \o RowTags(C9_First(row, TagsAliases, <<>>)), {})
            /\ e.source = C9_First(row, SourceAliases, arg.defaults.default_source)
            /\ e.timestamp = C9_First(row, TimestampAliases, <<>>)

\* C9 happens: the row has "word" with an empty cell and "term" with a value, and
\* the entry's word is that value
C9_Witness ==
    /\ ret # <<>> /\ ret[1].mapped
    /\ <<"w", "o", "r", "d">> \in DOMAIN ret[1].row
    /\ <<"t", "e", "r", "m">> \in DOMAIN ret[1].row
    /\ ret[1].row[<<"w", "o", "r", "d">>] = <<>>
    /\ ret[1].row[<<"t", "e", "r", "m">>] = <<"v">>
    /\ ret[1].result.entry.word = <<"v">>

\* the elements of l that are not empty and whose lower-cased form no earlier
\* element has, from position i on
RECURSIVE C10_FirstSeen(_, _)
C10_FirstSeen(l, i) ==
    IF i > Len(l) THEN <<>>
    ELSE (IF l[i] # <<>> /\ \A j \in 1..(i - 1) : lower(l[j]) # lower(l[i])
          THEN <<l[i]>> ELSE <<>>) \o C10_FirstSeen(l, i + 1)

\* C10: the tags of the entry map_row_to_entry returns are the default tags
\* followed by the tags parsed from the row's tag cell, empties removed and
\* case-insensitive duplicates removed so that the first occurrence survives with
\* its own casing, in first-seen order; the caller's default tag list is not
\* modified.
C10_TagsMergedFirstSeen ==
    ret # <<>> /\ ret[1].mapped =>
        /\ ret[1].result.entry.tags =
               C10_FirstSeen(ret[1].default_tags \o RowTags(pick(ret[1].row, TagsAliases)), 1)
        /\ ret[1].result.default_tags = ParseTags(arg.defaults.default_tags_str)

\* C10 happens: the defaults x, X, y met the tag cell [X,'v',, V] and the entry's
\* tags are x, y, v
C10_Witness ==
    /\ ret # <<>> /\ ret[1].mapped
    /\ ret[1].default_tags = << <<"x">>, <<"X">>, <<"y">> >>
    /\ <<"t", "a", "g", "s">> \in DOMAIN ret[1].row
    /\ ret[1].row[<<"t", "a", "g", "s">>] # <<>>
    /\ ret[1].result.entry.tags = << <<"x">>, <<"y">>, <<"v">> >>

\* C11: every entry Import from Tables appends comes from a row of the uploaded
\* tables and carries the Timestamp Normalizer's output for that row's raw
\* timestamp cell, the timestamp Add Word stores for the same raw text (a cell
\* 5:09 is stored as 00:05:09).
C11_TableTimestampNormalized ==
    [][TablesStep =>
          LET rows == Flatten(extract_tables_as_dicts(upload.tables))
          IN  \A i \in (Len(entries) + 1)..Len(entries') :
                  \E k \in 1..Len(rows) :
                      /\ entries'[i].word = pick(rows[k], WordAliases)
                      /\ entries'[i].timestamp =
                             normalize_timestamp(pick(rows[k], TimestampAliases))]_vars

\* how many entries of es carry the date_added d
C12_Count(es, d) == Cardinality({i \in 1..Len(es) : es[i].date_added = d})

\* the entries es2 keeps of es have the date_added they had: a handler that
\* appends leaves es as the prefix of es2 with its dates; Save Changes, which can
\* drop and reorder rows, brings no date that es had not and no date more often
\* than es had it
C12_DatesKept(es, es2, op) ==
    IF op = "save_changes"
    THEN \A j \in 1..Len(es2) :
             es2[j].date_added \notin {<<>>, NoneV}
                 => C12_Count(es2, es2[j].date_added) <= C12_Count(es, es2[j].date_added)
    ELSE /\ Len(es) <= Len(es2)
         /\ \A i \in 1..Len(es) : es2[i].date_added = es[i].date_added

\* C12: every entry of the collection has a non-empty date_added, and no step of
\* the loaded session (Add Word, an import, Save Changes) changes the date_added
\* of an entry the collection already holds.
C12_DateAddedSetOnce ==
    [][phase = "ready" /\ phase' = "ready" /\ entries' # entries =>
          /\ \A j \in 1..Len(entries') : entries'[j].date_added \notin {<<>>, NoneV}
          /\ C12_DatesKept(entries, entries', msg'.op)]_vars

====
